---- MODULE Spec2Model ----
(***************************************************************************)
(* A model of the user service of go-playground: the cached variant        *)
(* (src/unnamed/part_000: MySQL store + Redis cache-aside) with its        *)
(* handlers split at every store and cache call, so that requests          *)
(* interleave exactly where the Go handlers can.                           *)
(***************************************************************************)
EXTENDS Integers, Sequences, FiniteSets, TLC

VARIABLES
    store,      \* rows of table users, in primary-key order
    nextId,     \* AUTO_INCREMENT counter of table users
    cache,      \* the Redis keyspace: key -> entry
    req,        \* the in-flight request of every connection slot
    resp,       \* the response the step just taken wrote, if it wrote one
    last        \* what is remembered of the response written last (history)

vars == <<store, nextId, cache, req, resp, last>>

----------------------------------------------------------------------------
(* Bounds of the model *)

\* ids handed out by AUTO_INCREMENT are 1..MaxId: at most MaxId inserts per run
MaxId == 2
\* a Redis list is pushed to only while it stays within MaxList values
MaxList == 2

Procs == {"r1", "r2"}
Usernames == {"", "ann"}
Emails == {"", "a@x.com"}
Keys == {"", "users", "k"}
Fields == {"", "f"}
Values == {"", "v"}
ValueLists == {<<>>, <<"v">>}

----------------------------------------------------------------------------
(* Program constants *)

WriteOps == {"createUser", "updateUser", "deleteUser"}

\* 2*time.Minute, the expiry of the entry written on a read miss
ReadTTL == 2
\* 5*time.Minute, the expiry of the entry written by updateCache
RefreshTTL == 5
\* expiration 0 of rdb.Set: the key does not expire
KeepForever == 0

StatusOK == 200
StatusCreated == 201
StatusBadRequest == 400
StatusInternalServerError == 500

----------------------------------------------------------------------------
(* type User and its JSON form *)

User(id, username, email) == [ID |-> id, Username |-> username, Email |-> email]

ZeroUser == User(0, "", "")

\* one element of the array json.Marshal writes for a User
MarshalUser(u) ==
    "{\"id\":" \o ToString(u.ID) \o ",\"username\":\"" \o u.Username
        \o "\",\"email\":\"" \o u.Email \o "\"}"

RECURSIVE JoinUsers(_)
JoinUsers(users) ==
    IF Len(users) = 1 THEN MarshalUser(users[1])
    ELSE MarshalUser(users[1]) \o "," \o JoinUsers(Tail(users))

\* json.Marshal(users) for `var users []User`: a slice nothing was appended to
\* is nil, and a nil slice is encoded as null
Marshal(users) ==
    IF Len(users) = 0 THEN "null" ELSE "[" \o JoinUsers(users) \o "]"

\* the user collections of the model
UserSeqs ==
    UNION { { q \in [1..n -> [ID : 1..MaxId, Username : Usernames, Email : Emails]] :
                \A i \in 1..n : \A j \in 1..n : i < j => q[i].ID < q[j].ID }
            : n \in 0..MaxId }

\* the JSON array that holds the users q
ArrayOf(q) == IF Len(q) = 0 THEN "[]" ELSE "[" \o JoinUsers(q) \o "]"

\* whether a client can decode the payload as a JSON array of users, or null
IsUsersJSON(text) ==
    text = "null" \/ \E q \in UserSeqs : ArrayOf(q) = text

\* json.Unmarshal(text, &users) of a client: null leaves the slice empty
Unmarshal(text) ==
    IF text = "null" THEN <<>> ELSE CHOOSE q \in UserSeqs : ArrayOf(q) = text

----------------------------------------------------------------------------
(* The store: the statements the handlers send to MySQL *)

\* an INSERT that numbers the new row after the rows the table holds now
InsertUserReusingId(rows, id, username, email) ==
    Append(rows, User(Len(rows) + 1, username, email))

\* INSERT INTO users (username, email) VALUES (?, ?)
InsertUser(rows, id, username, email) == Append(rows, User(id, username, email))

\* UPDATE users SET email = ? WHERE username = ?
UpdateEmail(rows, username, email) ==
    [i \in DOMAIN rows |->
        IF rows[i].Username = username THEN [rows[i] EXCEPT !.Email = email]
        ELSE rows[i]]

\* a DELETE whose WHERE clause keeps no row
KeepsNoRow(row, username) == FALSE

KeepsUsername(row, username) == row.Username # username

\* DELETE FROM users WHERE username = ?
DeleteRows(rows, username) ==
    SelectSeq(rows, LAMBDA row : KeepsUsername(row, username))

\* what db.Exec can answer: the statement ran, or an error
ExecOutcomes(faulty) == IF faulty THEN {"ok", "err"} ELSE {"ok"}

\* The block "db.Query; for rows.Next() { rows.Scan; append }" that getUsers
\* and updateCache share.  db.Query or rows.Scan may return an error; when the
\* result set breaks while it is iterated, rows.Next() returns false and the
\* loop ends with the rows read so far: rows.Err() is not looked at.
FetchOutcomes(rows, faulty) ==
    {[kind |-> "ok", read |-> Len(rows)]}
    \cup (IF faulty
          THEN {[kind |-> "queryErr", read |-> 0]}
               \cup {[kind |-> k, read |-> n] :
                        k \in {"scanErr", "cut"}, n \in 0..(Len(rows) - 1)}
          ELSE {})

FetchUsers(rows, o) ==
    [err   |-> o.kind \in {"queryErr", "scanErr"},
     users |-> SubSeq(rows, 1, o.read)]

----------------------------------------------------------------------------
(* The cache: the Redis commands the handlers send *)

NoEntry == [kind |-> "none", str |-> "", list |-> <<>>, hash |-> {}, ttl |-> KeepForever]

StringEntry(value, ttl) == [NoEntry EXCEPT !.kind = "string", !.str = value, !.ttl = ttl]

RedisNil == "redis: nil"
WrongType == "WRONGTYPE Operation against a key holding the wrong kind of value"
Unavailable == "connection refused"

\* what a Redis command can answer: the server's reply, or a client error
CmdOutcomes(faulty) == IF faulty THEN {"ok", "err"} ELSE {"ok"}

\* GET key
Get(c, key, o) ==
    IF o = "err" THEN [err |-> Unavailable, val |-> ""]
    ELSE IF c[key].kind = "none" THEN [err |-> RedisNil, val |-> ""]
    ELSE IF c[key].kind # "string" THEN [err |-> WrongType, val |-> ""]
    ELSE [err |-> "", val |-> c[key].str]

\* SET key value [EX ttl] NX: writes the key only when it holds nothing
SetNX(c, key, value, ttl, o) ==
    IF o = "err" THEN [err |-> Unavailable, cache |-> c]
    ELSE IF c[key].kind # "none" THEN [err |-> "", cache |-> c]
    ELSE [err |-> "", cache |-> [c EXCEPT ![key] = StringEntry(value, ttl)]]

\* SET key value [EX ttl]: replaces the key whatever it held, expiry included
Set(c, key, value, ttl, o) ==
    IF o = "err" THEN [err |-> Unavailable, cache |-> c]
    ELSE [err |-> "", cache |-> [c EXCEPT ![key] = StringEntry(value, ttl)]]

\* RPUSH key values...: creates the list, keeps the expiry of an existing one
RPush(c, key, values, o) ==
    IF o = "err" THEN [err |-> Unavailable, cache |-> c]
    ELSE IF c[key].kind = "none"
        THEN [err |-> "", cache |-> [c EXCEPT ![key] =
                    [NoEntry EXCEPT !.kind = "list", !.list = values]]]
    ELSE IF c[key].kind = "list"
        THEN [err |-> "", cache |-> [c EXCEPT ![key].list = @ \o values]]
    ELSE [err |-> WrongType, cache |-> c]

\* LRANGE key 0 -1: a missing key is an empty list
LRange(c, key, o) ==
    IF o = "err" THEN [err |-> Unavailable, vals |-> <<>>]
    ELSE IF c[key].kind \in {"none", "list"} THEN [err |-> "", vals |-> c[key].list]
    ELSE [err |-> WrongType, vals |-> <<>>]

\* HSET key field value
HSet(c, key, field, value, o) ==
    IF o = "err" THEN [err |-> Unavailable, cache |-> c]
    ELSE IF c[key].kind \in {"none", "hash"}
        THEN [err |-> "", cache |-> [c EXCEPT ![key] =
                    [@ EXCEPT !.kind = "hash",
                              !.hash = {fv \in @ : fv[1] # field} \cup {<<field, value>>}]]]
    ELSE [err |-> WrongType, cache |-> c]

\* HGET key field
HGet(c, key, field, o) ==
    IF o = "err" THEN [err |-> Unavailable, val |-> ""]
    ELSE IF c[key].kind = "none" THEN [err |-> RedisNil, val |-> ""]
    ELSE IF c[key].kind # "hash" THEN [err |-> WrongType, val |-> ""]
    ELSE IF \E fv \in c[key].hash : fv[1] = field
        THEN [err |-> "", val |-> (CHOOSE fv \in c[key].hash : fv[1] = field)[2]]
    ELSE [err |-> RedisNil, val |-> ""]

\* one minute passes in Redis: keys with an expiry lose a minute and go at 0
Expire(c) ==
    [k \in DOMAIN c |->
        IF c[k].kind = "none" \/ c[k].ttl = KeepForever THEN c[k]
        ELSE IF c[k].ttl = 1 THEN NoEntry
        ELSE [c[k] EXCEPT !.ttl = @ - 1]]

----------------------------------------------------------------------------
(* Requests and responses *)

CacheKeys == Keys \ {""}

\* a slot with no request in flight
Idle ==
    [op |-> "none", pc |-> "idle", user |-> ZeroUser, users |-> <<>>, seen |-> <<>>,
     dbCalls |-> 0, rdbCalls |-> 0, mutated |-> FALSE, failed |-> FALSE,
     touched |-> FALSE]

NoPrior == [kind |-> "other", failed |-> FALSE, body |-> ""]

\* what a finished request leaves behind: status and body as written to w, and
\* the request's record (its input, the calls it made, and for getUsers the
\* table as it was when the request queried it)
Response(r, status, body, hit) ==
    [op |-> r.op, user |-> r.user,
     seen |-> IF r.op = "getUsers" THEN r.seen ELSE <<>>,
     dbCalls |-> r.dbCalls, rdbCalls |-> r.rdbCalls, mutated |-> r.mutated,
     failed |-> r.failed, touched |-> r.touched,
     status |-> status, body |-> body, hit |-> hit,
     prior |-> NoPrior]

\* What is remembered of a response for the one after it: a write that answered
\* with its success status while nobody else changed the table (and whether a
\* call of it failed), a list answered from the store (with its payload), or
\* anything else.
Remembered(response) ==
    IF /\ response.op \in WriteOps
       /\ response.status \in {StatusOK, StatusCreated}
       /\ ~response.touched
    THEN [kind |-> "write", failed |-> response.failed, body |-> ""]
    ELSE IF response.op = "getUsers" /\ response.status = StatusOK /\ ~response.hit
    THEN [kind |-> "miss", failed |-> response.failed, body |-> response.body]
    ELSE NoPrior

NoResponse == Response(Idle, 0, "", FALSE)

\* http.Error(w, msg, code)
HttpError(r, msg, code) == Response(r, code, msg \o "\n", FALSE)

Started(op, user) == [Idle EXCEPT !.op = op, !.user = user]

\* the handler returns: the slot is free again and the response is on record
Reply(p, response) ==
    /\ req' = [req EXCEPT ![p] = Idle]
    /\ resp' = [response EXCEPT !.prior = last]
    /\ last' = Remembered(response)

\* the handler goes on to its next store or cache call
Goto(p, r) ==
    /\ req' = [req EXCEPT ![p] = r]
    /\ resp' = NoResponse
    /\ UNCHANGED last

AllIdle == \A q \in Procs : req[q].pc = "idle"

\* json.NewDecoder(r.Body).Decode(&user): an error, or a User whose missing
\* fields are left empty
Bodies ==
    {[err |-> TRUE, user |-> ZeroUser]}
    \cup {[err |-> FALSE, user |-> User(0, u, e)] : u \in Usernames, e \in Emails}

Init ==
    /\ store = <<>>
    /\ nextId = 1
    /\ cache = [k \in CacheKeys |-> NoEntry]
    /\ req = [p \in Procs |-> Idle]
    /\ resp = NoResponse
    /\ last = NoPrior

----------------------------------------------------------------------------
(* GET /users *)

\* getUsers giving the entry a new expiry when it is answered from the cache
GetUsersRefreshingExpiry(p, faulty) ==
    /\ req[p].pc = "idle"
    /\ \E o \in CmdOutcomes(faulty) :
        LET r == [Started("getUsers", ZeroUser) EXCEPT !.rdbCalls = 1, !.failed = (o # "ok")]
            g == Get(cache, "users", o)
        IN  /\ IF g.err = ""
               THEN /\ Reply(p, Response(r, StatusOK, g.val, TRUE))
                    /\ cache' = [cache EXCEPT !["users"].ttl = ReadTTL]
               ELSE /\ Goto(p, [r EXCEPT !.pc = "query"])
                    /\ UNCHANGED cache
            /\ UNCHANGED <<store, nextId>>

\* getUsers up to its cache probe: a hit is answered from the cache
GetUsers(p, faulty) ==
    /\ req[p].pc = "idle"
    /\ \E o \in CmdOutcomes(faulty) :
        LET r == [Started("getUsers", ZeroUser) EXCEPT !.rdbCalls = 1, !.failed = (o # "ok")]
            g == Get(cache, "users", o)
        IN  /\ IF g.err = ""
               THEN Reply(p, Response(r, StatusOK, g.val, TRUE))
               ELSE Goto(p, [r EXCEPT !.pc = "query"])
            /\ UNCHANGED <<store, nextId, cache>>

\* getUsers on a miss: the query and the row loop
GetUsersQuery(p, faulty) ==
    /\ req[p].pc = "query"
    /\ \E o \in FetchOutcomes(store, faulty) :
        LET f == FetchUsers(store, o)
            r == [req[p] EXCEPT !.dbCalls = @ + 1, !.failed = @ \/ (o.kind # "ok"),
                                !.users = f.users, !.seen = store]
        IN  /\ IF f.err
               THEN Reply(p, HttpError(r, Unavailable, StatusInternalServerError))
               ELSE Goto(p, [r EXCEPT !.pc = "set"])
            /\ UNCHANGED <<store, nextId, cache>>

\* getUsers on a miss: marshal, populate the cache, answer
GetUsersSet(p, faulty) ==
    /\ req[p].pc = "set"
    /\ \E o \in CmdOutcomes(faulty) :
        LET usersJSONRes == Marshal(req[p].users)
            s == Set(cache, "users", usersJSONRes, ReadTTL, o)
            r == [req[p] EXCEPT !.rdbCalls = @ + 1, !.failed = @ \/ (o # "ok")]
        IN  /\ cache' = s.cache
            /\ IF s.err # ""
               THEN Reply(p, HttpError(r, s.err, StatusInternalServerError))
               ELSE Reply(p, Response(r, StatusOK, usersJSONRes, FALSE))
            /\ UNCHANGED <<store, nextId>>

----------------------------------------------------------------------------
(* POST /user, POST /user/update, POST /user/delete *)

\* db.Exec(statement): on an error the table is as it was
Exec(o, before, after) ==
    IF o = "err" THEN [err |-> Unavailable, table |-> before]
    ELSE [err |-> "", table |-> after]

\* the handler goes on whatever db.Exec returned
ExecErrorIgnored(err) == FALSE

\* `if err != nil { http.Error(..., 500); return }` after db.Exec
ExecFailed(err) == err # ""

\* w.WriteHeader at the end of a write handler
SuccessStatus(op) == IF op = "createUser" THEN StatusCreated ELSE StatusOK

\* "// Update Redis cache": the handler calls updateCache()
CallUpdateCache(p, r) == Goto(p, [r EXCEPT !.pc = "refreshQuery"])

\* the part the three write handlers share: run the statement, answer 500 on
\* an error, otherwise go on to updateCache
Mutate(p, r0, o, after) ==
    LET x == Exec(o, [rows |-> store, next |-> nextId], after)
        r == [r0 EXCEPT !.dbCalls = 1, !.failed = (o # "ok"), !.mutated = (x.err = "")]
    IN  /\ store' = x.table.rows
        /\ nextId' = x.table.next
        /\ UNCHANGED cache
        /\ IF ExecFailed(x.err)
           THEN Reply(p, HttpError(r, x.err, StatusInternalServerError))
           ELSE CallUpdateCache(p, r)

\* the body could not be decoded, or a parameter is missing
BadRequest(p, r0, msg) ==
    /\ Reply(p, HttpError(r0, msg, StatusBadRequest))
    /\ UNCHANGED <<store, nextId, cache>>

CreateUser(p, faulty) ==
    /\ req[p].pc = "idle"
    /\ nextId <= MaxId
    /\ \E b \in Bodies, o \in ExecOutcomes(faulty) :
        LET r0 == Started("createUser", b.user)
        IN  IF b.err THEN BadRequest(p, r0, "invalid character")
            ELSE Mutate(p, r0, o,
                    [rows |-> InsertUser(store, nextId, b.user.Username, b.user.Email),
                     next |-> nextId + 1])

UpdateUser(p, faulty) ==
    /\ req[p].pc = "idle"
    /\ \E b \in Bodies, o \in ExecOutcomes(faulty) :
        LET r0 == Started("updateUser", b.user)
        IN  IF b.err THEN BadRequest(p, r0, "invalid character")
            ELSE Mutate(p, r0, o,
                    [rows |-> UpdateEmail(store, b.user.Username, b.user.Email),
                     next |-> nextId])

\* deleteUser running its statement before it looks at the parameter
DeleteUserChecksLate(p, faulty) ==
    /\ req[p].pc = "idle"
    /\ \E username \in Usernames :
        LET r0 == [Started("deleteUser", User(0, username, "")) EXCEPT !.dbCalls = 1]
        IN  /\ store' = DeleteRows(store, username)
            /\ UNCHANGED <<nextId, cache>>
            /\ IF username = ""
               THEN Reply(p, HttpError(r0, "Missing username parameter", StatusBadRequest))
               ELSE CallUpdateCache(p, [r0 EXCEPT !.mutated = TRUE])

DeleteUser(p, faulty) ==
    /\ req[p].pc = "idle"
    /\ \E username \in Usernames, o \in ExecOutcomes(faulty) :
        LET r0 == Started("deleteUser", User(0, username, ""))
        IN  IF username = "" THEN BadRequest(p, r0, "Missing username parameter")
            ELSE Mutate(p, r0, o,
                    [rows |-> DeleteRows(store, username), next |-> nextId])

\* updateCache: the query and the row loop; an error is logged and updateCache
\* returns, and the handler writes its success status
UpdateCacheQuery(p, faulty) ==
    /\ req[p].pc = "refreshQuery"
    /\ \E o \in FetchOutcomes(store, faulty) :
        LET f == FetchUsers(store, o)
            r == [req[p] EXCEPT !.dbCalls = @ + 1, !.failed = @ \/ (o.kind # "ok"),
                                !.users = f.users, !.seen = store]
        IN  /\ IF f.err
               THEN Reply(p, Response(r, SuccessStatus(r.op), "", FALSE))
               ELSE Goto(p, [r EXCEPT !.pc = "refreshSet"])
            /\ UNCHANGED <<store, nextId, cache>>

\* updateCache reading the table again when it writes the cache
UpdateCacheSetRequeried(p, faulty) ==
    /\ req[p].pc = "refreshSet"
    /\ cache' = [cache EXCEPT !["users"] = StringEntry(Marshal(store), RefreshTTL)]
    /\ Reply(p, Response([req[p] EXCEPT !.rdbCalls = @ + 1],
                         SuccessStatus(req[p].op), "", FALSE))
    /\ UNCHANGED <<store, nextId>>

\* updateCache: marshal and overwrite the cache entry; an error is logged
UpdateCacheSet(p, faulty) ==
    /\ req[p].pc = "refreshSet"
    /\ \E o \in CmdOutcomes(faulty) :
        LET usersJSON == Marshal(req[p].users)
            s == Set(cache, "users", usersJSON, RefreshTTL, o)
            r == [req[p] EXCEPT !.rdbCalls = @ + 1, !.failed = @ \/ (o # "ok")]
        IN  /\ cache' = s.cache
            /\ Reply(p, Response(r, SuccessStatus(r.op), "", FALSE))
            /\ UNCHANGED <<store, nextId>>

----------------------------------------------------------------------------
(* The Redis passthrough handlers *)

RECURSIVE JoinStrings(_)
JoinStrings(vals) ==
    IF Len(vals) = 0 THEN ""
    ELSE IF Len(vals) = 1 THEN vals[1]
    ELSE vals[1] \o " " \o JoinStrings(Tail(vals))

\* fmt's %v of a []string
FormatStrings(vals) == "[" \o JoinStrings(vals) \o "]"

\* a passthrough handler after its one Redis command
Passthrough(p, r0, o, err, body) ==
    LET r == [r0 EXCEPT !.rdbCalls = 1, !.failed = (o # "ok")]
    IN  /\ IF err # ""
           THEN Reply(p, HttpError(r, err, StatusInternalServerError))
           ELSE Reply(p, Response(r, StatusOK, body, FALSE))
        /\ UNCHANGED <<store, nextId>>

SetString(p, faulty) ==
    /\ req[p].pc = "idle"
    /\ \E key \in Keys, value \in Values, o \in CmdOutcomes(faulty) :
        LET r0 == Started("setString", ZeroUser)
        IN  IF key = "" \/ value = ""
            THEN BadRequest(p, r0, "Missing key or value parameters")
            ELSE LET s == Set(cache, key, value, KeepForever, o)
                 IN  cache' = s.cache /\ Passthrough(p, r0, o, s.err, "")

GetString(p, faulty) ==
    /\ req[p].pc = "idle"
    /\ \E key \in Keys, o \in CmdOutcomes(faulty) :
        LET r0 == Started("getString", ZeroUser)
        IN  IF key = ""
            THEN BadRequest(p, r0, "Missing key parameter")
            ELSE LET g == Get(cache, key, o)
                 IN  /\ UNCHANGED cache
                     /\ Passthrough(p, r0, o, g.err,
                            "Value for key " \o key \o ": " \o g.val \o "\n")

SetList(p, faulty) ==
    /\ req[p].pc = "idle"
    /\ \E key \in Keys, values \in ValueLists, o \in CmdOutcomes(faulty) :
        LET r0 == Started("setList", ZeroUser)
        IN  IF key = "" \/ Len(values) = 0
            THEN BadRequest(p, r0, "Missing key or value parameters")
            ELSE LET s == RPush(cache, key, values, o)
                 IN  /\ Len(s.cache[key].list) <= MaxList
                     /\ cache' = s.cache
                     /\ Passthrough(p, r0, o, s.err, "")

GetList(p, faulty) ==
    /\ req[p].pc = "idle"
    /\ \E key \in Keys, o \in CmdOutcomes(faulty) :
        LET r0 == Started("getList", ZeroUser)
        IN  IF key = ""
            THEN BadRequest(p, r0, "Missing key parameter")
            ELSE LET g == LRange(cache, key, o)
                 IN  /\ UNCHANGED cache
                     /\ Passthrough(p, r0, o, g.err,
                            "Values for key " \o key \o ": " \o FormatStrings(g.vals) \o "\n")

SetHash(p, faulty) ==
    /\ req[p].pc = "idle"
    /\ \E key \in Keys, field \in Fields, value \in Values, o \in CmdOutcomes(faulty) :
        LET r0 == Started("setHash", ZeroUser)
        IN  IF key = "" \/ field = "" \/ value = ""
            THEN BadRequest(p, r0, "Missing key, field, or value parameters")
            ELSE LET s == HSet(cache, key, field, value, o)
                 IN  cache' = s.cache /\ Passthrough(p, r0, o, s.err, "")

GetHash(p, faulty) ==
    /\ req[p].pc = "idle"
    /\ \E key \in Keys, field \in Fields, o \in CmdOutcomes(faulty) :
        LET r0 == Started("getHash", ZeroUser)
        IN  IF key = "" \/ field = ""
            THEN BadRequest(p, r0, "Missing key or field parameter")
            ELSE LET g == HGet(cache, key, field, o)
                 IN  /\ UNCHANGED cache
                     /\ Passthrough(p, r0, o, g.err,
                            "Value for field " \o field \o " in key " \o key \o ": "
                                \o g.val \o "\n")

----------------------------------------------------------------------------
(* The variant without a cache (src/main.go): every handler is one store call *)

\* json.NewEncoder(w).Encode(users): the JSON of json.Marshal and a newline
Encode(users) == Marshal(users) \o "\n"

\* getUsers of src/main.go on a table [rows, next]
PlainGetUsers(table, o) ==
    LET f == FetchUsers(table.rows, o)
    IN  IF f.err
        THEN [status |-> StatusInternalServerError, body |-> Unavailable \o "\n", table |-> table]
        ELSE [status |-> StatusOK, body |-> Encode(f.users), table |-> table]

\* a write handler of src/main.go after its db.Exec
PlainMutate(o, table, after, success) ==
    LET x == Exec(o, table, after)
    IN  IF ExecFailed(x.err)
        THEN [status |-> StatusInternalServerError, body |-> x.err \o "\n", table |-> x.table]
        ELSE [status |-> success, body |-> "", table |-> x.table]

\* createUser of src/main.go
PlainCreateUser(table, b, o) ==
    IF b.err
    THEN [status |-> StatusBadRequest, body |-> "invalid character\n", table |-> table]
    ELSE PlainMutate(o, table,
            [rows |-> InsertUser(table.rows, table.next, b.user.Username, b.user.Email),
             next |-> table.next + 1],
            StatusCreated)

\* updateUser of src/main.go
PlainUpdateUser(table, b, o) ==
    IF b.err
    THEN [status |-> StatusBadRequest, body |-> "invalid character\n", table |-> table]
    ELSE PlainMutate(o, table,
            [rows |-> UpdateEmail(table.rows, b.user.Username, b.user.Email),
             next |-> table.next],
            StatusOK)

\* deleteUser of src/main.go
PlainDeleteUser(table, username, o) ==
    IF username = ""
    THEN [status |-> StatusBadRequest, body |-> "Missing username parameter\n", table |-> table]
    ELSE PlainMutate(o, table,
            [rows |-> DeleteRows(table.rows, username), next |-> table.next],
            StatusOK)

----------------------------------------------------------------------------
(* The environment *)

\* a minute passes: Redis drops the keys whose expiry is reached
Tick ==
    /\ \E k \in CacheKeys : cache[k].kind # "none" /\ cache[k].ttl # KeepForever
    /\ cache' = Expire(cache)
    /\ resp' = NoResponse
    /\ UNCHANGED <<store, nextId, req, last>>

\* somebody else changes table users with a statement of their own
OutOfBand ==
    /\ \E u \in Usernames \ {""}, e \in Emails \ {""} :
        \/ /\ nextId <= MaxId
           /\ store' = InsertUser(store, nextId, u, e)
           /\ nextId' = nextId + 1
        \/ /\ store' = UpdateEmail(store, u, e)
           /\ store' # store
           /\ UNCHANGED nextId
        \/ /\ store' = DeleteRows(store, u)
           /\ store' # store
           /\ UNCHANGED nextId
    /\ resp' = NoResponse
    /\ last' = IF last.kind = "write" THEN NoPrior ELSE last
    /\ req' = [p \in Procs |->
                IF req[p].pc = "idle" THEN req[p] ELSE [req[p] EXCEPT !.touched = TRUE]]
    /\ UNCHANGED cache

----------------------------------------------------------------------------
(* The specifications *)

\* a request for the user collection arrives and its handler runs up to its
\* first store or cache call
UserStart(p, faulty) ==
    \/ GetUsers(p, faulty)
    \/ CreateUser(p, faulty)
    \/ UpdateUser(p, faulty)
    \/ DeleteUser(p, faulty)

\* a request for a Redis passthrough arrives and its handler runs
PassthroughStart(p, faulty) ==
    \/ SetString(p, faulty)
    \/ GetString(p, faulty)
    \/ SetList(p, faulty)
    \/ GetList(p, faulty)
    \/ SetHash(p, faulty)
    \/ GetHash(p, faulty)

\* a handler in flight makes its next call
Continue(p, faulty) ==
    \/ GetUsersQuery(p, faulty)
    \/ GetUsersSet(p, faulty)
    \/ UpdateCacheQuery(p, faulty)
    \/ UpdateCacheSet(p, faulty)

\* One client that sends its next request when it has the response, store and
\* cache calls that may fail, time passing and the table changed out of band.
Next ==
    \/ UserStart("r1", TRUE)
    \/ Continue("r1", TRUE)
    \/ Tick
    \/ OutOfBand

Spec == Init /\ [][Next]_vars

\* One client using every route, with store and cache calls that succeed.
NextAll ==
    \/ UserStart("r1", FALSE)
    \/ PassthroughStart("r1", FALSE)
    \/ Continue("r1", FALSE)
    \/ Tick

SpecAll == Init /\ [][NextAll]_vars

\* net/http runs every request in its own goroutine: two clients whose writes
\* interleave at every store and cache call, with calls that succeed.
NextRace ==
    \E p \in Procs :
        \/ CreateUser(p, FALSE)
        \/ UpdateUser(p, FALSE)
        \/ DeleteUser(p, FALSE)
        \/ UpdateCacheQuery(p, FALSE)
        \/ UpdateCacheSet(p, FALSE)

SpecRace == Init /\ [][NextRace]_vars

\* One client using the four user routes, one request at a time, with store
\* and cache calls that succeed.
NextSeq ==
    \/ UserStart("r1", FALSE)
    \/ Continue("r1", FALSE)
    \/ Tick

SpecSeq == Init /\ [][NextSeq]_vars

\* One client using the user routes and the string passthrough, with calls
\* that succeed; a handler in flight goes on to its next call and returns, and
\* Redis lets time pass on the keys that have an expiry.
NextLive ==
    \/ UserStart("r1", FALSE)
    \/ Continue("r1", FALSE)
    \/ SetString("r1", FALSE)
    \/ GetString("r1", FALSE)
    \/ Tick

SpecLive ==
    Init /\ [][NextLive]_vars /\ WF_vars(Tick) /\ WF_vars(Continue("r1", FALSE))

\* One client that writes and one that lists, each sending its next request
\* when it has the response; their handlers interleave at every store and
\* cache call, the calls succeed, and time passes.
NextMix ==
    \/ CreateUser("r1", FALSE)
    \/ UpdateUser("r1", FALSE)
    \/ DeleteUser("r1", FALSE)
    \/ UpdateCacheQuery("r1", FALSE)
    \/ UpdateCacheSet("r1", FALSE)
    \/ GetUsers("r2", FALSE)
    \/ GetUsersQuery("r2", FALSE)
    \/ GetUsersSet("r2", FALSE)
    \/ Tick

SpecMix == Init /\ [][NextMix]_vars

----------------------------------------------------------------------------
(* Write-then-read freshness *)

\* the response is that of a list request sent right after a write answered
\* with its success status, the table untouched in between and since
ListAfterWrite == resp.op = "getUsers" /\ resp.prior.kind = "write"

\* the payload of the response decodes to the rows the table holds now
ListsTheStore ==
    resp.status = StatusOK /\ IsUsersJSON(resp.body) /\ Unmarshal(resp.body) = store

\* C1: after a create, update or delete that answered with its success status,
\* the collection the list request sent next returns is the store's contents.
C1_FreshAfterAnyWrite ==
    (ListAfterWrite /\ resp.status = StatusOK) => ListsTheStore

----------------------------------------------------------------------------
(* Read correctness and staleness *)

\* the response is that of a list request answered from the store
ListOnMiss == resp.op = "getUsers" /\ resp.status = StatusOK /\ ~resp.hit

\* the response is that of a list request answered from the cache, sent after
\* a list request that was answered from the store
HitAfterMiss == resp.op = "getUsers" /\ resp.hit /\ resp.prior.kind = "miss"

\* C2: a list request that misses the cache returns exactly the rows the table
\* held when it was queried, and a list request that follows it and is served
\* from the cache returns the same payload, whatever happened to the table.
C2_ReadCorrectness ==
    /\ ListOnMiss => (IsUsersJSON(resp.body) /\ Unmarshal(resp.body) = resp.seen)
    /\ HitAfterMiss => resp.body = resp.prior.body

----------------------------------------------------------------------------
(* Required fields *)

\* C3: a create or update whose username or email is missing is answered with
\* 400 and makes no store call and no cache call.
C3_RequiredFields ==
    (resp.op \in {"createUser", "updateUser"}
        /\ (resp.user.Username = "" \/ resp.user.Email = ""))
    => (resp.status = StatusBadRequest /\ resp.dbCalls = 0 /\ resp.rdbCalls = 0)

----------------------------------------------------------------------------
(* Store and cache failures in a write *)

\* the step in which the write handler of p returns after updateCache
RefreshEnds(p) == req[p].pc \in {"refreshQuery", "refreshSet"} /\ req'[p].pc = "idle"

\* C5: when the statement of a write succeeded and a step of its cache refresh
\* fails (the query, the row loop or the cache set), the handler answers with
\* its success status, the table keeps the change and the entry under users is
\* as it was.
C5_RefreshFailureSuppressed ==
    [][\A p \in Procs :
        (RefreshEnds(p) /\ resp'.failed)
        => /\ resp'.status = SuccessStatus(req[p].op)
           /\ resp'.mutated
           /\ store' = store
           /\ cache'["users"] = cache["users"]]_vars

\* C6: when the statement of a write fails the handler answers 500 without a
\* cache call and with the cache as it was, a write answers 500 in no other
\* case, and updateCache runs only in a request whose statement succeeded.
C6_StoreFailureAborts ==
    [][/\ (resp'.op \in WriteOps /\ resp'.dbCalls > 0 /\ ~resp'.mutated)
            => /\ resp'.status = StatusInternalServerError
               /\ resp'.dbCalls = 1 /\ resp'.rdbCalls = 0
               /\ store' = store /\ cache' = cache
       /\ (resp'.op \in WriteOps /\ resp'.status = StatusInternalServerError)
            => ~resp'.mutated
       /\ \A p \in Procs :
            req'[p].pc \in {"refreshQuery", "refreshSet"} => req'[p].mutated]_vars

\* a write answered 500 while the cache held a snapshot
C6_Witness ==
    /\ resp.op \in WriteOps /\ resp.status = StatusInternalServerError
    /\ ~resp.mutated
    /\ cache["users"].kind = "string"
    /\ Len(store) > 0

----------------------------------------------------------------------------
(* The empty collection *)

\* C9: an empty collection is written as the JSON array [], in the payload of
\* a list response and in the payload stored in the cache.
C9_EmptyIsArray ==
    /\ (resp.op = "getUsers" /\ resp.status = StatusOK /\ IsUsersJSON(resp.body)
            /\ Len(store) = 0 /\ Len(Unmarshal(resp.body)) = 0)
        => resp.body = "[]"
    /\ (cache["users"].kind = "string" /\ IsUsersJSON(cache["users"].str)
            /\ Len(store) = 0 /\ Len(Unmarshal(cache["users"].str)) = 0)
        => cache["users"].str = "[]"

----------------------------------------------------------------------------
(* Client errors *)

\* C4: a step that answers 400 leaves the table, its counter and the whole
\* cache as they were, and the request made no store call and no cache call.
C4_ClientErrorNoSideEffect ==
    [][resp'.status = StatusBadRequest
        => /\ store' = store /\ nextId' = nextId /\ cache' = cache
           /\ resp'.dbCalls = 0 /\ resp'.rdbCalls = 0]_vars

\* a delete without its parameter was answered 400 while the table held rows
\* with an empty username and the cache held a snapshot
C4_Witness ==
    /\ resp.op = "deleteUser" /\ resp.status = StatusBadRequest
    /\ \E i \in DOMAIN store : store[i].Username = ""
    /\ cache["users"].kind = "string"
    /\ cache["k"].kind # "none"

----------------------------------------------------------------------------
(* The race of two writes *)

\* C7: the refresh of a write stores the rows it read when it queried the
\* table, whatever the table holds by the time it writes the cache; when
\* another write changed the table in between, the entry differs from the table.
C7_LastRefreshWins ==
    [][\A p \in Procs :
        (req[p].pc = "refreshSet" /\ req'[p].pc = "idle")
        => /\ IsUsersJSON(cache'["users"].str)
           /\ Unmarshal(cache'["users"].str) = req[p].seen
           /\ (req[p].seen # store => Unmarshal(cache'["users"].str) # store')]_vars

\* both writes have returned, the table holds the rows of two creates, and the
\* entry under users holds the first row alone: the snapshot of the earlier write
C7_Witness ==
    /\ AllIdle
    /\ Len(store) = 2
    /\ cache["users"].kind = "string"
    /\ IsUsersJSON(cache["users"].str)
    /\ Unmarshal(cache["users"].str) = SubSeq(store, 1, 1)

----------------------------------------------------------------------------
(* The passthrough routes and the user collection *)

PassthroughSets == {"setString", "setList", "setHash"}

\* C8: a set-string, set-list or set-hash request leaves the entry under users
\* as it was, and every list response is what it is without those requests:
\* the rows of the table.
C8_PassthroughIndependent ==
    [][/\ resp'.op \in PassthroughSets => cache'["users"] = cache["users"]
       /\ resp'.op = "getUsers"
            => /\ resp'.status = StatusOK
               /\ IsUsersJSON(resp'.body)
               /\ Unmarshal(resp'.body) = store']_vars

----------------------------------------------------------------------------
(* Bounded staleness *)

\* C10, the part of it that does not need a clock: a payload that list-users
\* serves from the cache is a user collection, the entry it is served from
\* has an expiry, and every entry getUsers or updateCache writes has one.
C10_BoundedStaleness ==
    [][/\ (resp'.op = "getUsers" /\ resp'.hit)
            => /\ IsUsersJSON(resp'.body)
               /\ cache["users"].ttl # KeepForever
       /\ \A p \in Procs :
            (req[p].pc \in {"set", "refreshSet"} /\ req'[p].pc = "idle"
                /\ cache'["users"] # cache["users"])
            => cache'["users"].ttl \in 1..RefreshTTL]_vars

----------------------------------------------------------------------------
(* Deleting a username that is not there *)

\* the rows of a table whose username is not u, in their order
RowsWithout(rows, u) == SelectSeq(rows, LAMBDA row : row.Username # u)

\* C12: the statement of a delete with a username leaves the table as it was
\* when no row has that username, and leaves no row with that username behind,
\* so that the same delete sent again changes nothing; the request answers 200
\* whenever its statement ran, and otherwise 500 with the table as it was.
C12_IdempotentDelete ==
    [][/\ \A p \in Procs :
            (req[p].pc = "idle" /\ req'[p].op = "deleteUser")
            => LET u == req'[p].user.Username
               IN  /\ u # ""
                   /\ (\A i \in DOMAIN store : store[i].Username # u) => store' = store
                   /\ store' = RowsWithout(store, u)
                   /\ RowsWithout(store', u) = store'
                   /\ nextId' = nextId
       /\ (resp'.op = "deleteUser" /\ resp'.mutated) => resp'.status = StatusOK
       /\ (resp'.op = "deleteUser" /\ resp'.user.Username # "" /\ ~resp'.mutated)
            => /\ resp'.status = StatusInternalServerError
               /\ store' = store]_vars

\* a delete of ann answered 200 while every row ever inserted is still in the
\* table: the delete matched no row
C12_Witness ==
    /\ resp.op = "deleteUser" /\ resp.status = StatusOK
    /\ resp.user.Username = "ann"
    /\ Len(store) > 0
    /\ Len(store) = nextId - 1

----------------------------------------------------------------------------
(* The cache hit *)

\* C13: a list request whose GET of key users succeeds answers 200 with the
\* stored value as it is, makes no store call, and leaves table and cache as
\* they were, the expiry of the entry included; a list request goes on to the
\* table only when its GET failed or the key holds no string.
C13_HitFastPath ==
    [][/\ (resp'.op = "getUsers" /\ resp'.hit)
            => /\ cache["users"].kind = "string"
               /\ resp'.status = StatusOK
               /\ resp'.body = cache["users"].str
               /\ resp'.dbCalls = 0 /\ resp'.rdbCalls = 1
               /\ cache' = cache
               /\ store' = store /\ nextId' = nextId
       /\ \A p \in Procs :
            (req[p].pc = "idle" /\ req'[p].pc = "query")
            => (cache["users"].kind # "string" \/ req'[p].failed)]_vars

\* a list answered from an entry in its last minute whose payload is no longer
\* what the table holds
C13_Witness ==
    /\ resp.op = "getUsers" /\ resp.hit
    /\ cache["users"].ttl = 1
    /\ IsUsersJSON(resp.body)
    /\ Unmarshal(resp.body) # store

----------------------------------------------------------------------------
(* The cache miss *)

\* C14: a list request whose GET of key users fails, for whatever reason, goes
\* on to query the table.  When the query fails it answers 500 with no
\* collection and the cache as it was; otherwise it has the rows of the table,
\* and it either stores their JSON under users with the read expiry and answers
\* 200 with that JSON, or, when the cache write fails, answers 500 with no
\* collection and the cache as it was.
C14_ReadMiss ==
    [][\A p \in Procs :
        /\ (req[p].pc = "idle" /\ req'[p].op = "getUsers" /\ resp'.op # "getUsers")
            => req'[p].pc = "query"
        /\ (req[p].pc = "query" /\ req'[p].pc = "idle")
            => /\ resp'.status = StatusInternalServerError
               /\ ~IsUsersJSON(resp'.body)
               /\ cache' = cache
        /\ (req[p].pc = "query" /\ req'[p].pc = "set")
            => (req'[p].users = store /\ cache' = cache)
        /\ (req[p].pc = "set" /\ req'[p].pc = "idle")
            => \/ /\ resp'.status = StatusInternalServerError
                  /\ ~IsUsersJSON(resp'.body)
                  /\ cache' = cache
               \/ /\ resp'.status = StatusOK
                  /\ IsUsersJSON(resp'.body)
                  /\ Unmarshal(resp'.body) = req[p].seen
                  /\ cache'["users"] = StringEntry(resp'.body, ReadTTL)]_vars

----------------------------------------------------------------------------
(* Partial results *)

\* q holds the first rows of the table and not all of them
Partial(q, rows) == Len(q) < Len(rows) /\ q = SubSeq(rows, 1, Len(q))

\* C15: a list request never answers 200 with a part of the rows the table held
\* when it was queried, and neither getUsers nor updateCache ever stores a part
\* of those rows under users.
C15_NoPartialResults ==
    [][\A p \in Procs :
        /\ (req[p].pc = "set" /\ req'[p].pc = "idle" /\ resp'.status = StatusOK)
            => ~Partial(Unmarshal(resp'.body), req[p].seen)
        /\ (req[p].pc \in {"set", "refreshSet"} /\ req'[p].pc = "idle"
                /\ cache'["users"] # cache["users"])
            => ~Partial(Unmarshal(cache'["users"].str), req[p].seen)]_vars

----------------------------------------------------------------------------
(* What the entry under users holds *)

\* what a key holds, its expiry left aside
Payload(entry) == [entry EXCEPT !.ttl = KeepForever]

\* C16: whenever the key users comes to hold something it did not hold before,
\* a getUsers or an updateCache has written it, and it is the JSON of all the
\* rows the table held when that request queried it.
C16_EntryIsSnapshot ==
    [][(cache'["users"].kind # "none" /\ Payload(cache'["users"]) # Payload(cache["users"]))
        => \E p \in Procs :
            /\ req[p].pc \in {"set", "refreshSet"} /\ req'[p].pc = "idle"
            /\ cache'["users"].kind = "string"
            /\ IsUsersJSON(cache'["users"].str)
            /\ Unmarshal(cache'["users"].str) = req[p].seen]_vars

----------------------------------------------------------------------------
(* Record identity *)

\* the row of the table before the step that has the id of row i after it
SameRecord(i, j) == store[j].ID = store'[i].ID

\* C17: in every step the ids of the table stay distinct and in order, a row
\* that is new has an id at or above the counter, which is above every id handed
\* out before and moves past the new id; a row that stays keeps its username;
\* and the statement of an update leaves the number of rows, every id and every
\* username as they were and sets the email of the rows of its username only.
C17_RecordIdentity ==
    [][/\ \A i, j \in DOMAIN store' : i < j => store'[i].ID < store'[j].ID
       /\ nextId' >= nextId
       /\ \A i \in DOMAIN store' :
            /\ store'[i].ID < nextId'
            /\ (\A j \in DOMAIN store : ~SameRecord(i, j)) => store'[i].ID >= nextId
            /\ \A j \in DOMAIN store :
                SameRecord(i, j) => store'[i].Username = store[j].Username
       /\ \A p \in Procs :
            (req[p].pc = "idle" /\ req'[p].op = "updateUser")
            => /\ Len(store') = Len(store)
               /\ nextId' = nextId
               /\ \A i \in DOMAIN store :
                    /\ store'[i].ID = store[i].ID
                    /\ store'[i].Username = store[i].Username
                    /\ store'[i].Email =
                        IF store[i].Username = req'[p].user.Username
                        THEN req'[p].user.Email ELSE store[i].Email]_vars

\* a create was answered 201 and its row, the only one left, has id 2: the id
\* of the deleted first row was not handed out again
C17_Witness ==
    /\ resp.op = "createUser" /\ resp.status = StatusCreated
    /\ Len(store) = 1
    /\ store[1].ID = 2
    /\ nextId = 3

----------------------------------------------------------------------------
(* One writer and readers *)

\* C18: with writes that never overlap one another, list requests running
\* beside them and calls that succeed, the entry under users, when all requests
\* have returned and the key is there, holds the rows of the table.
C18_SingleWriter ==
    (AllIdle /\ cache["users"].kind = "string")
    => (IsUsersJSON(cache["users"].str) /\ Unmarshal(cache["users"].str) = store)

----------------------------------------------------------------------------
(* The cached variant against the variant without a cache *)

\* json.Unmarshal of a body that json.Encoder wrote
UnmarshalLine(text) ==
    IF text = "null\n" THEN <<>>
    ELSE CHOOSE q \in UserSeqs : ArrayOf(q) \o "\n" = text

\* the body a write handler decoded: the request's user, or an error when the
\* handler answered 400 at once
DecodedBody(r, status) ==
    [err |-> (status = StatusBadRequest), user |-> r.user]

\* what the variant without a cache answers to the write request r on a table
PlainWrite(r, status, table) ==
    IF r.op = "createUser" THEN PlainCreateUser(table, DecodedBody(r, status), "ok")
    ELSE IF r.op = "updateUser" THEN PlainUpdateUser(table, DecodedBody(r, status), "ok")
    ELSE PlainDeleteUser(table, r.user.Username, "ok")

Table == [rows |-> store, next |-> nextId]

\* C19: the two variants, started on the same table and sent the same requests
\* one at a time, keep the same table and give the same answers.  Step by
\* step, on the table both hold: the store call of a write of the cached
\* variant leaves the table the write handler of src/main.go leaves; a write
\* answers with the status src/main.go answers with; no other step changes the
\* table; and a list response has the status and the collection of the
\* response of getUsers of src/main.go.
C19_CachedRefinesPlain ==
    [][/\ \A p \in Procs :
            (req[p].pc = "idle" /\ req'[p].op \in WriteOps)
            => <<store', nextId'>> =
                    LET t == PlainWrite(req'[p], 0, Table).table IN <<t.rows, t.next>>
       /\ (AllIdle /\ resp'.op \in WriteOps)
            => LET a == PlainWrite(resp', resp'.status, Table)
               IN  /\ resp'.status = a.status
                   /\ <<store', nextId'>> = <<a.table.rows, a.table.next>>
       /\ \A p \in Procs :
            (req[p].op \in WriteOps /\ req'[p].pc = "idle")
            => /\ resp'.status = PlainWrite(req[p], 0, Table).status
               /\ <<store', nextId'>> = <<store, nextId>>
       /\ (resp'.op \notin WriteOps
                /\ \A p \in Procs : req[p].op \notin WriteOps /\ req'[p].op \notin WriteOps)
            => <<store', nextId'>> = <<store, nextId>>
       /\ resp'.op = "getUsers"
            => LET a == PlainGetUsers(Table, [kind |-> "ok", read |-> Len(store)])
               IN  /\ resp'.status = a.status
                   /\ IsUsersJSON(resp'.body)
                   /\ Unmarshal(resp'.body) = UnmarshalLine(a.body)]_vars

\* a list answered from the cache, after writes, with the two rows the variant
\* without a cache reads from the table
C19_Witness ==
    /\ resp.op = "getUsers" /\ resp.hit
    /\ Len(store) = 2
    /\ resp.body \o "\n" = PlainGetUsers(Table, [kind |-> "ok", read |-> 2]).body
    /\ store[2].Email # ""

----------------------------------------------------------------------------
(* Eventual consistency *)

\* no write is in flight and the response on record is neither that of a write
\* nor that of a passthrough request that sets a key
WritesStopped ==
    /\ resp.op \notin WriteOps \cup PassthroughSets
    /\ \A p \in Procs : req[p].op \notin WriteOps

\* C11: in a run in which the requests that write the table or a key stop for
\* good, with calls that succeed and keys that expire, from some point on every list response is 200 with the
\* rows the table holds.
C11_EventuallyConsistent ==
    <>[]WritesStopped
    => <>[][resp'.op = "getUsers"
                => /\ resp'.status = StatusOK
                   /\ IsUsersJSON(resp'.body)
                   /\ Unmarshal(resp'.body) = store']_vars

====
